---- MODULE Spec2Model ----
(***************************************************************************)
(* CategoricalGrouper of paralytics/column_parsing.py: the estimator's     *)
(* constructor parameters, the attributes fit leaves on the instance, and  *)
(* the calls fit(X) and transform(X).                                      *)
(*                                                                         *)
(* A frame X is a sequence of columns; a column has a name, a dtype        *)
(* ("category" or "object"), its cells, and for dtype category the set of  *)
(* categories (the closed domain).  Cells hold no missing values on input. *)
(* Relative frequencies, the tracker and 1 - percentile_thresh are IEEE    *)
(* binary64 numbers, as in the code: a number is kept exactly, as three    *)
(* limbs of 20 bits counting units of 2^-60, and every division, addition  *)
(* and subtraction rounds to 53 significant bits, to nearest, ties to even.*)
(***************************************************************************)
EXTENDS Integers, Sequences, FiniteSets, TLC

VARIABLES
  params,     \* the constructor's arguments, as __init__ copies them
  attrs,      \* which of cat_cols_, imp_cats_ exist on the instance
  cat_cols_,  \* self.cat_cols_
  imp_cats_,  \* self.imp_cats_: column name -> list of replaced categories
  call        \* the last call: its operation, argument, outcome, result

vars == <<params, attrs, cat_cols_, imp_cats_, call>>

----------------------------------------------------------------------------
(* Bounds of the input families.                                           *)

MaxRows == 2
MaxRowsFreq == 6
MaxCols == 2
MaxListLen == 2

----------------------------------------------------------------------------
(* binary64 arithmetic on [0, 2), for numbers that are 0 or at least 2^-8. *)

LimbBase == 2^20

FZero == <<0, 0, 0>>

FOne == <<LimbBase, 0, 0>>

RECURSIVE UlpAt(_, _)
UlpAt(hi, k) == IF k = 0 \/ hi >= 2^(12 + k) THEN 2^k ELSE UlpAt(hi, k - 1)

\* the spacing of binary64 numbers around x, in units of 2^-60
Ulp(x) == UlpAt(x[1], 8)

Carry(x) ==
  LET c0 == x[3] \div LimbBase
      m1 == x[2] + c0
      c1 == m1 \div LimbBase
  IN  <<x[1] + c1, m1 % LimbBase, x[3] % LimbBase>>

RoundNearestEven(x, sticky) ==
  LET u    == Ulp(x)
      r    == x[3] % u
      odd  == (x[3] \div u) % 2 = 1
      up   == \/ 2 * r > u
              \/ 2 * r = u /\ (sticky \/ odd)
      down == <<x[1], x[2], x[3] - r>>
  IN  IF up THEN Carry(<<down[1], down[2], down[3] + u>>) ELSE down

FAdd(x, y) ==
  RoundNearestEven(Carry(<<x[1] + y[1], x[2] + y[2], x[3] + y[3]>>), FALSE)

FSub(x, y) ==
  RoundNearestEven(Carry(<<x[1] - y[1], x[2] - y[2], x[3] - y[3]>>), FALSE)

\* c / n for integers 0 <= c <= n, 1 <= n
FDiv(c, n) ==
  LET q2 == (c * LimbBase) \div n
      r2 == (c * LimbBase) % n
      q1 == (r2 * LimbBase) \div n
      r1 == (r2 * LimbBase) % n
      q0 == (r1 * LimbBase) \div n
      r0 == (r1 * LimbBase) % n
  IN  RoundNearestEven(<<q2, q1, q0>>, r0 # 0)

FLt(x, y) ==
  \/ x[1] < y[1]
  \/ x[1] = y[1] /\ x[2] < y[2]
  \/ x[1] = y[1] /\ x[2] = y[2] /\ x[3] < y[3]

----------------------------------------------------------------------------
(* Frames.                                                                 *)

Range(s) == {s[k] : k \in DOMAIN s}

NaN == "NaN"

NotDataFrame == [df |-> FALSE, cols |-> <<>>]

DataFrame(cols) == [df |-> TRUE, cols |-> cols]

columns(X) == [k \in DOMAIN X.cols |-> X.cols[k].name]

\* len(X)
len(X) == IF X.cols = <<>> THEN 0 ELSE Len(X.cols[1].cells)

\* X[col], for col one of X.columns
getitem(X, col) == X.cols[CHOOSE k \in DOMAIN X.cols : X.cols[k].name = col]

----------------------------------------------------------------------------
(* _cat_cols_selection                                                     *)

None == [kind |-> "None", items |-> <<>>]

List(items) == [kind |-> "list", items |-> items]

NotAList == [kind |-> "tuple", items |-> <<>>]

\* a selection that walks include_cols instead of X.columns
cat_cols_selection_in_list_order(X, include, exclude) ==
  LET names == columns(X)
      IsCategory(col) == getitem(X, col).dtype = "category"
      cat_cols0 == SelectSeq(names, IsCategory)
      IsColumn(col) == col \in Range(names)
      NotYet(col) == col \notin Range(include.items)
      cat_cols1 == IF include.kind # "None"
                     THEN SelectSeq(include.items, IsColumn) \o SelectSeq(cat_cols0, NotYet)
                     ELSE cat_cols0
      NotExcluded(col) == col \notin Range(exclude.items)
      cat_cols2 == IF exclude.kind # "None"
                     THEN SelectSeq(cat_cols1, NotExcluded) ELSE cat_cols1
  IN  IF include.kind \notin {"None", "list"} \/ exclude.kind \notin {"None", "list"}
        THEN [raised |-> TRUE, cat_cols |-> <<>>]
        ELSE [raised |-> FALSE, cat_cols |-> cat_cols2]

cat_cols_selection(X, include, exclude) ==
  LET names == columns(X)
      IsCategory(col) == getitem(X, col).dtype = "category"
      cat_cols0 == SelectSeq(names, IsCategory)
      Included(col) == col \in Range(cat_cols0) \/ col \in Range(include.items)
      cat_cols1 == IF include.kind # "None"
                     THEN SelectSeq(names, Included) ELSE cat_cols0
      NotExcluded(col) == col \notin Range(exclude.items)
      cat_cols2 == IF exclude.kind # "None"
                     THEN SelectSeq(cat_cols1, NotExcluded) ELSE cat_cols1
  IN  IF include.kind \notin {"None", "list"}
        THEN [raised |-> TRUE, cat_cols |-> <<>>]
      ELSE IF exclude.kind \notin {"None", "list"}
        THEN [raised |-> TRUE, cat_cols |-> <<>>]
      ELSE [raised |-> FALSE, cat_cols |-> cat_cols2]

----------------------------------------------------------------------------
(* fit                                                                     *)

Count(column, v) == Cardinality({r \in DOMAIN column.cells : column.cells[r] = v})

\* the labels of column.value_counts(): the observed values, and for dtype
\* category every category, observed or not
Labels(column) ==
  IF column.dtype = "category" THEN column.cats ELSE Range(column.cells)

\* value_counts sorts by count, descending; the order of equal counts is the
\* sort's own, so every order of them is a possible index
RECURSIVE descending(_, _)
descending(S, counts) ==
  IF S = {} THEN {<<>>}
  ELSE UNION {{<<v>> \o s : s \in descending(S \ {v}, counts)} :
                v \in {u \in S : \A w \in S : counts[u] >= counts[w]}}

value_counts_index(column) ==
  descending(Labels(column), [v \in Labels(column) |-> Count(column, v)])

\* value_counts(normalize=True): count / sum of the counts
sorted_series(column, index) ==
  [k \in DOMAIN index |-> FDiv(Count(column, index[k]), Len(column.cells))]

IndexError == -1

\* while tracker < 1 - percentile_thresh: tracker += iloc[i]; i += 1
RECURSIVE walk(_, _, _, _)
walk(series, limit, tracker, i) ==
  IF ~FLt(tracker, limit) THEN i
  ELSE IF i >= Len(series) THEN IndexError
  ELSE walk(series, limit, FAdd(tracker, series[i + 1]), i + 1)

\* a limit of percentile_thresh instead of 1 - percentile_thresh
percentile_limit_not_complemented(thresh) == FDiv(thresh[1], thresh[2])

percentile_limit(thresh) == FSub(FOne, FDiv(thresh[1], thresh[2]))

stop_index(column, index, thresh) ==
  walk(sorted_series(column, index), percentile_limit(thresh), FZero, 0)

\* a fit that writes into the dict of the fit before it
empty_dict_kept(old) == old

\* self.imp_cats_ = {}
empty_dict(old) == <<>>

\* a test len(sparse_cats) > 0
grouped_single_too(sparse_cats) == IF Len(sparse_cats) > 0 THEN sparse_cats ELSE <<>>

grouped(sparse_cats) == IF Len(sparse_cats) > 1 THEN sparse_cats ELSE <<>>

\* the loop of fit over cat_cols[1..k]: the entries of imp_cats_ written so
\* far, the walk of each column, and whether iloc raised
RECURSIVE fit_columns(_, _, _, _, _)
fit_columns(X, cat_cols, index, thresh, k) ==
  IF k = 0 THEN [raised |-> FALSE, col |-> "", imp_cats |-> empty_dict(imp_cats_),
                 stop |-> <<>>]
  ELSE
    LET before == fit_columns(X, cat_cols, index, thresh, k - 1)
        col    == cat_cols[k]
        i      == stop_index(getitem(X, col), index[col], thresh)
        sparse_cats == SubSeq(index[col], i + 1, Len(index[col]))
    IN  IF before.raised THEN before
        ELSE IF i = IndexError THEN [before EXCEPT !.raised = TRUE, !.col = col]
        ELSE [raised   |-> FALSE,
              col      |-> "",
              imp_cats |-> (col :> grouped(sparse_cats)) @@ before.imp_cats,
              stop     |-> (col :> i) @@ before.stop]

\* the indexes value_counts may give for the columns of cat_cols
RECURSIVE Indexes(_, _)
Indexes(X, cat_cols) ==
  IF cat_cols = <<>> THEN {<<>>}
  ELSE {(Head(cat_cols) :> s) @@ f :
          s \in value_counts_index(getitem(X, Head(cat_cols))),
          f \in Indexes(X, Tail(cat_cols))}

NoFrame == NotDataFrame

\* a call: the operation, the frame passed (X) and the caller's frame when the
\* call ends (X_after), how it ended (out, and the column at which it raised),
\* the frame returned (ret), for fit the index and the stopping i of each
\* column walked, and whether X is the frame the call before it returned
Outcome(op, X, X_after, out, col, ret) ==
  [op |-> op, X |-> X, X_after |-> X_after, out |-> out, col |-> col, ret |-> ret,
   index |-> <<>>, stop |-> <<>>, chained |-> FALSE]

Idle == Outcome("idle", NoFrame, NoFrame, "ok", "", NoFrame)

fit(X) ==
  LET sel == cat_cols_selection(X, params.include_cols, params.exclude_cols)
  IN
  /\ UNCHANGED params
  /\ IF ~X.df \/ len(X) = 0 \/ sel.raised
       THEN /\ UNCHANGED <<attrs, cat_cols_, imp_cats_>>
            /\ call' = Outcome("fit", X, X, "AssertionError", "", NoFrame)
     ELSE IF params.method # "freq"
       THEN /\ attrs' = {"cat_cols_", "imp_cats_"}
            /\ cat_cols_' = sel.cat_cols
            /\ imp_cats_' = <<>>
            /\ call' = Outcome("fit", X, X, "ok", "", NoFrame)
     ELSE \E index \in Indexes(X, sel.cat_cols) :
            LET loop == fit_columns(X, sel.cat_cols, index,
                                    params.percentile_thresh, Len(sel.cat_cols))
            IN  /\ attrs' = {"cat_cols_", "imp_cats_"}
                /\ cat_cols_' = sel.cat_cols
                /\ imp_cats_' = loop.imp_cats
                /\ call' = [Outcome("fit", X, X,
                                    IF loop.raised THEN "IndexError" ELSE "ok",
                                    loop.col, NoFrame)
                              EXCEPT !.index = index, !.stop = loop.stop]

----------------------------------------------------------------------------
(* transform                                                               *)

\* X_new = X: one object under two names
copy_by_reference(X) == [X |-> X, X_new |-> X, shared |-> TRUE]

\* X_new = X.copy(): the caller's frame and the frame X_new names, which are
\* two objects after a copy
copy(X) == [X |-> X, X_new |-> X, shared |-> FALSE]

\* a write to column number pos of X_new
setcol(h, pos, column) ==
  LET f == [h.X_new EXCEPT !.cols[pos] = column]
  IN  [X |-> IF h.shared THEN f ELSE h.X, X_new |-> f, shared |-> h.shared]

\* X_new[col].isin(self.imp_cats_[col])
isin(column, values) == {r \in DOMAIN column.cells : column.cells[r] \in Range(values)}

\* an add_categories that accepts a category the column has
add_categories_if_absent(column, new_cat) ==
  [raised |-> FALSE, column |-> [column EXCEPT !.cats = @ \cup {new_cat}]]

\* Series.cat.add_categories(new_cat, inplace=True); raises ValueError when
\* new_cat is a category already
add_categories(column, new_cat) ==
  IF new_cat \in column.cats
    THEN [raised |-> TRUE, column |-> column]
    ELSE [raised |-> FALSE, column |-> [column EXCEPT !.cats = @ \cup {new_cat}]]

\* Series.cat.remove_categories(removals, inplace=True): the cells that held
\* a removed category become missing
remove_categories(column, removals) ==
  [column EXCEPT !.cats = @ \ removals,
                 !.cells = [r \in DOMAIN @ |-> IF @[r] \in removals THEN NaN ELSE @[r]]]

\* X_new.loc[row_indices, col] = new_cat; a categorical refuses a value that
\* is not one of its categories, whichever rows are written
loc_setitem(column, row_indices, new_cat) ==
  IF column.dtype = "category" /\ new_cat \notin column.cats
    THEN [raised |-> TRUE, column |-> column]
    ELSE [raised |-> FALSE,
          column |-> [column EXCEPT !.cells =
                        [r \in DOMAIN @ |-> IF r \in row_indices THEN new_cat ELSE @[r]]]]

\* one pass of the loop of transform, for column col
transform_column(h, col, new_cat, imp_cats) ==
  LET here == {k \in DOMAIN h.X_new.cols : h.X_new.cols[k].name = col}
      pos  == CHOOSE k \in here : TRUE
      column0 == h.X_new.cols[pos]
      row_indices == isin(column0, imp_cats[col])
      added == add_categories(column0, new_cat)
      cat_removals == Range(imp_cats[col]) \cap added.column.cats
      column1 == IF column0.dtype = "category"
                   THEN remove_categories(added.column, cat_removals)
                   ELSE column0
      written == loc_setitem(column1, row_indices, new_cat)
  IN  IF here = {} \/ col \notin DOMAIN imp_cats
        THEN [raised |-> "KeyError", col |-> col, h |-> h]
      ELSE IF column0.dtype = "category" /\ added.raised
        THEN [raised |-> "ValueError_new_cat", col |-> col, h |-> h]
      ELSE IF written.raised
        THEN [raised |-> "ValueError_setitem", col |-> col, h |-> setcol(h, pos, column1)]
      ELSE [raised |-> "", col |-> "", h |-> setcol(h, pos, written.column)]

\* the loop of transform over cat_cols[1..k]
RECURSIVE transform_columns(_, _, _, _, _)
transform_columns(h, cat_cols, new_cat, imp_cats, k) ==
  IF k = 0 THEN [raised |-> "", col |-> "", h |-> h]
  ELSE
    LET before == transform_columns(h, cat_cols, new_cat, imp_cats, k - 1)
    IN  IF before.raised # "" THEN before
        ELSE transform_column(before.h, cat_cols[k], new_cat, imp_cats)

\* the assertion on X before the getattr of the fitted attributes
precondition_assert_first(X) ==
  IF ~X.df THEN "AssertionError"
  ELSE IF attrs # {"cat_cols_", "imp_cats_"} THEN "RuntimeError"
  ELSE ""

\* the getattr of imp_cats_ and cat_cols_, then the assertion on X
precondition(X) ==
  IF attrs # {"cat_cols_", "imp_cats_"} THEN "RuntimeError"
  ELSE IF ~X.df THEN "AssertionError"
  ELSE ""

transform(X) ==
  LET loop == transform_columns(copy(X), cat_cols_, params.new_cat, imp_cats_,
                                Len(cat_cols_))
      again == call.op = "transform" /\ call.out = "ok" /\ call.ret = X
  IN
  /\ UNCHANGED <<params, attrs, cat_cols_, imp_cats_>>
  /\ IF precondition(X) # ""
       THEN call' = [Outcome("transform", X, X, precondition(X), "", NoFrame)
                       EXCEPT !.chained = again]
     ELSE IF loop.raised # ""
       THEN call' = [Outcome("transform", X, loop.h.X, loop.raised, loop.col, NoFrame)
                       EXCEPT !.chained = again]
     ELSE call' = [Outcome("transform", X, loop.h.X, "ok", "", loop.h.X_new)
                     EXCEPT !.chained = again]

\* the caller passes the frame transform returned to transform again
transform_again == call.op = "transform" /\ call.out = "ok" /\ transform(call.ret)

\* the caller is done with the last call's frames
return == call.op # "idle" /\ call' = Idle /\ UNCHANGED <<params, attrs, cat_cols_, imp_cats_>>

----------------------------------------------------------------------------
(* The instances and the frames of each specification.                     *)

Vals == <<"a", "b", "Other">>

FreqVals == <<"a", "b", "c", "Other">>

Repeat(v, n) == [k \in 1..n |-> v]

\* the cells of a column that holds vals[k] cv[k] times
RECURSIVE Cells(_, _)
Cells(vals, cv) ==
  IF vals = <<>> THEN <<>>
  ELSE Repeat(Head(vals), Head(cv)) \o Cells(Tail(vals), Tail(cv))

CellsOfLen(vals, n) ==
  {cells \in {Cells(vals, cv) : cv \in [DOMAIN vals -> 0..n]} : Len(cells) = n}

ObjectColumn(name, cells) ==
  [name |-> name, dtype |-> "object", cells |-> cells, cats |-> {}]

CategoryColumn(name, cells, cats) ==
  [name |-> name, dtype |-> "category", cells |-> cells, cats |-> cats]

\* columns of n rows: dtype object, or dtype category whose categories are
\* the observed values or all of vals
Columns(name, vals, n) ==
  UNION {{ObjectColumn(name, cells),
          CategoryColumn(name, cells, Range(cells)),
          CategoryColumn(name, cells, Range(vals))} : cells \in CellsOfLen(vals, n)}

Params(method, thresh, new_cat, include, exclude) ==
  [method |-> method, percentile_thresh |-> thresh, new_cat |-> new_cat,
   include_cols |-> include, exclude_cols |-> exclude]

Fresh ==
  /\ attrs = {}
  /\ cat_cols_ = <<>>
  /\ imp_cats_ = <<>>
  /\ call = Idle

\* frequency walks: one fit of a fresh instance, on a frame of one column "x"
\* of up to MaxRowsFreq rows
FreqThresholds == {<<0, 1>>, <<1, 20>>, <<1, 4>>, <<1, 2>>, <<3, 4>>}

FreqFrames ==
  UNION {{DataFrame(<<c>>) : c \in Columns("x", FreqVals, n)} : n \in 0..MaxRowsFreq}

InitFreq ==
  /\ params \in {Params("freq", t, "Other", List(<<"x">>), None) : t \in FreqThresholds}
  /\ Fresh

NextFreq == call.op = "idle" /\ \E X \in FreqFrames : fit(X)

SpecFreq == InitFreq /\ [][NextFreq]_vars

\* column selection: frames of up to MaxCols one-row columns named in
\* SelNames, include_cols and exclude_cols of up to MaxListLen names
SelNames == {"x", "y", "z"}

InjSeqs(S, n) == {s \in [1..n -> S] : \A j, k \in 1..n : j # k => s[j] # s[k]}

SelColumn(name, dtype) ==
  IF dtype = "category" THEN CategoryColumn(name, <<"a">>, {"a"})
  ELSE ObjectColumn(name, <<"a">>)

SelFrames ==
  UNION {UNION {{DataFrame([k \in 1..n |-> SelColumn(names[k], dtypes[k])]) :
                   dtypes \in [1..n -> {"category", "object"}]} :
                names \in InjSeqs(SelNames, n)} : n \in 1..MaxCols}

Lists(S) == {None, NotAList} \cup UNION {{List(s) : s \in InjSeqs(S, n)} : n \in 0..MaxListLen}

InitSel ==
  /\ params \in {Params("freq", <<1, 20>>, "Other", inc, exc) :
                   inc \in Lists({"x", "y", "w"}), exc \in Lists({"x", "y"})}
  /\ Fresh

NextSel ==
  \/ call.op = "idle" /\ \E X \in SelFrames : fit(X)
  \/ return

SpecSel == InitSel /\ [][NextSel]_vars

\* the life of an instance: frames of one column "x" of up to MaxRows rows or
\* of MaxRowsFreq rows, frames of two columns "x", "y" of one row, and an
\* argument that is no frame
Thresholds == {<<0, 1>>, <<1, 20>>, <<3, 4>>}

Frames ==
  UNION {{DataFrame(<<c>>) : c \in Columns("x", Vals, n)} : n \in 0..MaxRows}
  \cup {DataFrame(<<c>>) : c \in Columns("x", Vals, MaxRowsFreq)}
  \cup {DataFrame(<<c, d>>) : c \in Columns("x", Vals, 1), d \in Columns("y", Vals, 1)}
  \cup {NotDataFrame}

Init ==
  /\ params \in {Params(m, t, "Other", None, None) :
                   m \in {"freq", "mean"}, t \in Thresholds}
  /\ Fresh

Next ==
  \/ call.op = "idle" /\ \E X \in Frames : fit(X)
  \/ call.op = "idle" /\ \E X \in Frames : transform(X)
  \/ transform_again
  \/ return

Spec == Init /\ [][Next]_vars

----------------------------------------------------------------------------
(* Properties.                                                             *)

Fitted == attrs = {"cat_cols_", "imp_cats_"}

new_cat == params.new_cat

\* C1: transform on an instance that has no cat_cols_ / imp_cats_ ends with
\* the RuntimeError that asks for a fit and returns no frame, whatever its
\* argument is, an argument that is no DataFrame included.
C1_PreconditionError ==
  (call.op = "transform" /\ ~Fitted) =>
    (call.out = "RuntimeError" /\ call.ret = NoFrame)

C1_Witness ==
  call.op = "transform" /\ attrs = {} /\ ~call.X.df /\ call.out = "RuntimeError"

\* the exact value 1 - t of a binary64 t in [0, 1], and n * x for a small n
ExactComplement(t) == Carry(<<FOne[1] - t[1], 0 - t[2], 0 - t[3]>>)

Times(x, n) == Carry(<<x[1] * n, x[2] * n, x[3] * n>>)

\* the first j labels of index hold a share of the rows of at least
\* 1 - percentile_thresh, in exact arithmetic
ShareReached(column, index, j, thresh) ==
  LET counted == {r \in DOMAIN column.cells : \E k \in 1..j : index[k] = column.cells[r]}
      limit   == ExactComplement(FDiv(thresh[1], thresh[2]))
  IN  ~FLt(Times(FOne, Cardinality(counted)), Times(limit, Len(column.cells)))

\* C2: for method 'freq', a non-empty frame and percentile_thresh in [0, 1),
\* the walk of every selected column ends inside the ranking, and the kept
\* labels are the shortest prefix of the ranking whose cumulative share is at
\* least 1 - percentile_thresh; with percentile_thresh = 0 no observed value
\* is left after the prefix, and a first label whose share reaches the limit
\* is the only kept one.
C2_ShortestPrefix ==
  (call.op = "fit" /\ call.out # "AssertionError" /\ params.method = "freq") =>
    /\ call.out = "ok"
    /\ \A col \in Range(cat_cols_) :
         LET column == getitem(call.X, col)
             index  == call.index[col]
             i      == call.stop[col]
         IN  /\ i <= Len(index)
             /\ ShareReached(column, index, i, params.percentile_thresh)
             /\ \A j \in 0..(i - 1) :
                  ~ShareReached(column, index, j, params.percentile_thresh)
             /\ params.percentile_thresh[1] = 0 =>
                  \A k \in (i + 1)..Len(index) : Count(column, index[k]) = 0
             /\ ShareReached(column, index, 1, params.percentile_thresh) => i = 1

\* C3: transform of the frame a transform returned, by the same fitted
\* instance, succeeds and returns that frame unchanged.
C3_Idempotent ==
  call.chained => (call.out = "ok" /\ call.ret = call.X)

\* C4: a selected column whose fitted sparse set is empty comes out of
\* transform as it went in, cells and categories, and transform does not
\* raise at that column.
C4_EmptySparseSetUnchanged ==
  (call.op = "transform" /\ Fitted /\ call.X.df) =>
    \A col \in (Range(cat_cols_) \cap DOMAIN imp_cats_) \cap Range(columns(call.X)) :
      imp_cats_[col] = <<>> =>
        /\ call.col # col
        /\ call.out = "ok" => getitem(call.ret, col) = getitem(call.X, col)

\* the cell of row r of column number k is one transform rewrites
Rewritten(k, r) ==
  LET column == call.X.cols[k]
  IN  /\ column.name \in Range(cat_cols_)
      /\ column.cells[r] \in Range(imp_cats_[column.name])

SameShape(X, R) ==
  /\ columns(R) = columns(X)
  /\ \A k \in DOMAIN X.cols : DOMAIN R.cols[k].cells = DOMAIN X.cols[k].cells

\* C5 as stated: transform leaves its argument as it was, and the frame it
\* returns has the rows and the columns of the argument, in order; a cell of
\* it differs from the argument's if and only if its column is selected and
\* its value is in the column's sparse set, and such a cell holds new_cat.
C5_OnlySparseCellsDiffer ==
  call.op = "transform" =>
    /\ call.X_after = call.X
    /\ call.out = "ok" =>
         /\ SameShape(call.X, call.ret)
         /\ \A k \in DOMAIN call.X.cols : \A r \in DOMAIN call.X.cols[k].cells :
              /\ call.ret.cols[k].cells[r] # call.X.cols[k].cells[r] <=> Rewritten(k, r)
              /\ Rewritten(k, r) => call.ret.cols[k].cells[r] = new_cat

\* C5 amended: as C5, but a cell differs if and only if its column is
\* selected, its value is in the column's sparse set and its value is not
\* new_cat already; every cell whose value is in the sparse set holds new_cat.
C5_OnlySparseCellsRewritten ==
  call.op = "transform" =>
    /\ call.X_after = call.X
    /\ call.out = "ok" =>
         /\ SameShape(call.X, call.ret)
         /\ \A k \in DOMAIN call.X.cols : \A r \in DOMAIN call.X.cols[k].cells :
              /\ call.ret.cols[k].cells[r] # call.X.cols[k].cells[r]
                   <=> (Rewritten(k, r) /\ call.X.cols[k].cells[r] # new_cat)
              /\ Rewritten(k, r) => call.ret.cols[k].cells[r] = new_cat

C5_Witness ==
  /\ call.op = "transform" /\ call.out = "ok" /\ Len(call.X.cols) = 2
  /\ \E k \in DOMAIN call.X.cols : \E r \in DOMAIN call.X.cols[k].cells :
       call.ret.cols[k].cells[r] # call.X.cols[k].cells[r]
  /\ \E k \in DOMAIN call.X.cols : call.X.cols[k].name \notin Range(cat_cols_)

\* the columns X.columns holds that pass the selection of the docstring
Wanted(X, include, exclude) ==
  LET Pass(col) ==
        /\ \/ getitem(X, col).dtype = "category"
           \/ include.kind = "list" /\ col \in Range(include.items)
        /\ ~(exclude.kind = "list" /\ col \in Range(exclude.items))
  IN  SelectSeq(columns(X), Pass)

\* C6: a fit that passes its assertions leaves in cat_cols_, in the order of
\* X.columns, the columns that are of dtype category or named in include_cols
\* and that are not named in exclude_cols; every one of them is a column of X.
C6_Selection ==
  (call.op = "fit" /\ call.out # "AssertionError") =>
    /\ cat_cols_ = Wanted(call.X, params.include_cols, params.exclude_cols)
    /\ Range(cat_cols_) \subseteq Range(columns(call.X))

C6_Witness ==
  /\ call.op = "fit" /\ call.out = "ok"
  /\ params.include_cols = List(<<"y", "x">>)
  /\ params.exclude_cols = None
  /\ columns(call.X) = <<"x", "y">>
  /\ \A k \in DOMAIN call.X.cols : call.X.cols[k].dtype = "object"
  /\ cat_cols_ = <<"x", "y">>

ThreshLe(s, t) == s[1] * t[2] <= t[1] * s[2]

\* the size of the sparse set the walk of fit leaves with another threshold
size_with(column, index, thresh) ==
  LET i == stop_index(column, index, thresh)
  IN  IF i = IndexError THEN -1
      ELSE Len(grouped(SubSeq(index, i + 1, Len(index))))

\* C7: for a column of a frame, the sparse set fitted with a larger
\* percentile_thresh is at least as large as the one fitted with a smaller.
C7_Monotone ==
  (call.op = "fit" /\ call.out = "ok") =>
    \A col \in DOMAIN call.stop : \A t \in FreqThresholds :
      LET n == size_with(getitem(call.X, col), call.index[col], t)
          m == Len(imp_cats_[col])
      IN  n # -1 =>
            /\ ThreshLe(params.percentile_thresh, t) => m <= n
            /\ ThreshLe(t, params.percentile_thresh) => n <= m

C7_Witness ==
  /\ call.op = "fit" /\ call.out = "ok"
  /\ \E col \in DOMAIN call.stop : \E t \in FreqThresholds :
       /\ ThreshLe(params.percentile_thresh, t)
       /\ 1 < Len(imp_cats_[col])
       /\ Len(imp_cats_[col]) < size_with(getitem(call.X, col), call.index[col], t)

\* C8: no list of imp_cats_ has one element: a walk that leaves 0 or 1 labels
\* records the empty list, a walk that leaves 2 or more records those labels.
C8_NeverSingle ==
  \A col \in DOMAIN imp_cats_ :
    /\ Len(imp_cats_[col]) # 1
    /\ (call.op = "fit" /\ col \in DOMAIN call.stop) =>
         LET left == SubSeq(call.index[col], call.stop[col] + 1, Len(call.index[col]))
         IN  imp_cats_[col] = IF Len(left) >= 2 THEN left ELSE <<>>

C8_Witness ==
  /\ call.op = "fit"
  /\ \E col \in DOMAIN call.stop :
       /\ Len(call.index[col]) - call.stop[col] = 1
       /\ Count(getitem(call.X, col), call.index[col][Len(call.index[col])]) > 0
       /\ imp_cats_[col] = <<>>

SelectedCategory(X) ==
  {col \in Range(cat_cols_) \cap Range(columns(X)) : getitem(X, col).dtype = "category"}

\* the categories and cells of a selected category column after a transform
DomainRewritten(col) ==
  LET before == getitem(call.X, col)
      after  == getitem(call.ret, col)
      sparse == Range(imp_cats_[col])
  IN  /\ new_cat \in after.cats
      /\ after.cats \cap sparse = {}
      /\ (before.cats \ sparse) \subseteq after.cats
      /\ Range(after.cells) \subseteq after.cats

\* transform gets as far as the add_categories of column col: col has a list
\* in imp_cats_, and every column of cat_cols_ before col is a column of X
\* with a list in imp_cats_ that, when of dtype category, neither has new_cat
\* as a category nor has it in its list
ReachesDomainStep(col) ==
  /\ col \in DOMAIN imp_cats_
  /\ \A k \in DOMAIN cat_cols_ :
       (\E j \in DOMAIN cat_cols_ : j > k /\ cat_cols_[j] = col) =>
         LET c == cat_cols_[k]
         IN  /\ c \in Range(columns(call.X))
             /\ c \in DOMAIN imp_cats_
             /\ getitem(call.X, c).dtype = "category" =>
                  /\ new_cat \notin getitem(call.X, c).cats
                  /\ new_cat \notin Range(imp_cats_[c])

Complete == DOMAIN imp_cats_ = Range(cat_cols_)

\* a step of C10, for the fits whose method is one of methods
FitResultStep(methods) ==
  /\ (call'.op = "fit" /\ call'.out = "ok" /\ params.method \in methods) =>
       /\ attrs' = {"cat_cols_", "imp_cats_"}
       /\ cat_cols_' = Wanted(call'.X, params.include_cols, params.exclude_cols)
       /\ DOMAIN imp_cats_' = Range(cat_cols_')
       /\ \A col \in Range(cat_cols_') :
            LET left == SubSeq(call'.index[col], call'.stop[col] + 1, Len(call'.index[col]))
            IN  imp_cats_'[col] = IF Len(left) > 1 THEN left ELSE <<>>
  /\ call'.op = "transform" =>
       /\ UNCHANGED <<attrs, cat_cols_, imp_cats_>>
       /\ (Fitted /\ Complete /\ call'.X.df
             /\ Range(cat_cols_) \subseteq Range(columns(call'.X))) =>
            call'.out # "KeyError"

\* C10 as stated: whatever method is, a fit that returns leaves imp_cats_ with
\* a list for exactly the columns of cat_cols_, both computed from that call's
\* frame; a transform changes neither, and on a frame that has the columns of
\* cat_cols_ it does not end with a KeyError.
C10_FitResultAnyMethod == [][FitResultStep({"freq", "mean"})]_vars

\* C10 amended: the same for method 'freq'.
C10_FitResultFreq == [][FitResultStep({"freq"})]_vars

C10_Witness ==
  /\ call.op = "transform" /\ call.out = "ok"
  /\ params.method = "freq"
  /\ Len(cat_cols_) = 1 /\ Len(call.X.cols) = 2
  /\ Complete
====
